---------------------------- MODULE Spec2Model ----------------------------
(***************************************************************************)
(* A model of script.ts, the 20M-BTC countdown page: the issuance          *)
(* arithmetic (totalSubsidyAtHeight, blockHeightForSupply), the rate       *)
(* estimator, the projection, and the poll cycles that update the          *)
(* estimate state and the page.                                            *)
(*                                                                         *)
(* A value of type `number | null' is a sequence: Null is << >> and the    *)
(* number n is <<n>>.  A number that the page obtains by a division (the   *)
(* average block time and everything computed from it) is an exact         *)
(* fraction <<num, den>> in lowest terms with den > 0.                     *)
(***************************************************************************)
EXTENDS Integers, Sequences, FiniteSets, TLC

VARIABLES
    currentBlock,           \* script.ts:28   number | null
    avgBlockTimeMs,         \* script.ts:29   fraction
    lastBlockTimeMs,        \* script.ts:30   number | null
    estimatedTargetTimeMs,  \* script.ts:31   fraction | null
    estimateMode,           \* script.ts:33   "average" | "fixed"
    countdownInterval,      \* script.ts:32   Null until startCountdown sets the timers
    elements,               \* script.ts:44   what the page shows
    now,                    \* Date.now()
    feedHeight,             \* the tip height the feed reported last
    polls,                  \* the poll cycles in flight, oldest first
    last,                   \* the latest completed poll cycle
    call                    \* the latest call of a pure function and its result

vars == <<currentBlock, avgBlockTimeMs, lastBlockTimeMs, estimatedTargetTimeMs,
          estimateMode, countdownInterval, elements, now, feedHeight, polls,
          last, call>>

-----------------------------------------------------------------------------
(* Values *)

Null == << >>
Some(n) == <<n>>
Val(x) == x[1]

Min(a, b) == IF a <= b THEN a ELSE b

\* x itself where the script has Math.max(0, x)
MaxUnclamped(a, b) == b

Max(a, b) == IF a >= b THEN a ELSE b

\* Math.floor in place of Math.ceil
CeilDivFloors(a, b) == a \div b

\* Math.round(a / b) in place of Math.ceil(a / b)
CeilDivRounds(a, b) == (2 * a + b) \div (2 * b)

\* Math.ceil(a / b) for integers a and b > 0
CeilDiv(a, b) == -((-a) \div b)

-----------------------------------------------------------------------------
(* The issuance schedule the state space is explored on: the program's     *)
(* schedule scaled down (50 units per block, halving every                 *)
(* ScaledHalvingInterval blocks, milestone ScaledTargetSats units).        *)

ScaledSatsPerBtc == 1
ScaledHalvingInterval == 2
ScaledTargetBtc == 110

ScaledInitialSubsidy == 50 * ScaledSatsPerBtc
ScaledTargetSats == ScaledTargetBtc * ScaledSatsPerBtc

\* script.ts:78 with Math.max in place of Math.min
RECURSIVE totalSubsidyLoopMax(_, _, _)
totalSubsidyLoopMax(remainingBlocks, subsidy, total) ==
    IF remainingBlocks > 0 /\ subsidy > 0
    THEN LET blocksThisEra == Max(remainingBlocks, ScaledHalvingInterval)
         IN  totalSubsidyLoopMax(remainingBlocks - blocksThisEra,
                                 subsidy \div 2,
                                 total + blocksThisEra * subsidy)
    ELSE total

\* script.ts:81 without the halving
RECURSIVE totalSubsidyLoopNoHalving(_, _, _)
totalSubsidyLoopNoHalving(remainingBlocks, subsidy, total) ==
    IF remainingBlocks > 0 /\ subsidy > 0
    THEN LET blocksThisEra == Min(remainingBlocks, ScaledHalvingInterval)
         IN  totalSubsidyLoopNoHalving(remainingBlocks - blocksThisEra,
                                       subsidy,
                                       total + blocksThisEra * subsidy)
    ELSE total

\* script.ts:70-85
RECURSIVE totalSubsidyLoop(_, _, _)
totalSubsidyLoop(remainingBlocks, subsidy, total) ==
    IF remainingBlocks > 0 /\ subsidy > 0
    THEN LET blocksThisEra == Min(remainingBlocks, ScaledHalvingInterval)
         IN  totalSubsidyLoop(remainingBlocks - blocksThisEra,
                              subsidy \div 2,
                              total + blocksThisEra * subsidy)
    ELSE total

totalSubsidyAtHeight(height) ==
    IF height = Null \/ Val(height) < 0
    THEN 0
    ELSE totalSubsidyLoop(Val(height) + 1, ScaledInitialSubsidy, 0)

\* script.ts:103 without the "- 1"
RECURSIVE blockHeightLoopNoMinusOne(_, _, _)
blockHeightLoopNoMinusOne(subsidy, remaining, blocks) ==
    IF subsidy > 0
    THEN LET eraSupply == subsidy * ScaledHalvingInterval
         IN  IF remaining > eraSupply
             THEN blockHeightLoopNoMinusOne(subsidy \div 2, remaining - eraSupply,
                                            blocks + ScaledHalvingInterval)
             ELSE LET blocksNeeded == CeilDiv(remaining, subsidy)
                  IN  Some(blocks + blocksNeeded)
    ELSE Null

\* script.ts:95 with >= in place of >
RECURSIVE blockHeightLoopGeq(_, _, _)
blockHeightLoopGeq(subsidy, remaining, blocks) ==
    IF subsidy > 0
    THEN LET eraSupply == subsidy * ScaledHalvingInterval
         IN  IF remaining >= eraSupply
             THEN blockHeightLoopGeq(subsidy \div 2, remaining - eraSupply,
                                     blocks + ScaledHalvingInterval)
             ELSE LET blocksNeeded == CeilDiv(remaining, subsidy)
                  IN  Some(blocks + blocksNeeded - 1)
    ELSE Null

\* script.ts:88-107
RECURSIVE blockHeightLoop(_, _, _)
blockHeightLoop(subsidy, remaining, blocks) ==
    IF subsidy > 0
    THEN LET eraSupply == subsidy * ScaledHalvingInterval
         IN  IF remaining > eraSupply
             THEN blockHeightLoop(subsidy \div 2, remaining - eraSupply,
                                  blocks + ScaledHalvingInterval)
             ELSE LET blocksNeeded == CeilDiv(remaining, subsidy)
                  IN  Some(blocks + blocksNeeded - 1)
    ELSE Null

blockHeightForSupply(targetSats) ==
    blockHeightLoop(ScaledInitialSubsidy, targetSats, 0)

\* script.ts:20-25
TARGET_BLOCK == blockHeightForSupply(ScaledTargetSats)
TARGET_BLOCK_HEIGHT == Val(TARGET_BLOCK)

-----------------------------------------------------------------------------
(* The program's own constants exceed TLC's 32-bit integers                *)
(* (TARGET_SATS = 2 * 10^15), so the startup computation on them is done   *)
(* on exact naturals written as little-endian sequences of digits in base  *)
(* BigBase, without leading zeros (zero is << >>).                         *)

TARGET_BTC == 20000000
SATS_PER_BTC == 100000000
HALVING_INTERVAL == 210000

BigBase == 100 * 100

RECURSIVE Big(_)
Big(n) == IF n = 0 THEN << >> ELSE <<n % BigBase>> \o Big(n \div BigBase)

RECURSIVE BigTrim(_)
BigTrim(a) ==
    IF a = << >> THEN a
    ELSE IF a[Len(a)] = 0 THEN BigTrim(SubSeq(a, 1, Len(a) - 1)) ELSE a

BigDigit(a, i) == IF i <= Len(a) THEN a[i] ELSE 0

RECURSIVE BigAddFrom(_, _, _, _)
BigAddFrom(a, b, i, carry) ==
    IF i > Max(Len(a), Len(b))
    THEN (IF carry = 0 THEN << >> ELSE <<carry>>)
    ELSE LET s == BigDigit(a, i) + BigDigit(b, i) + carry
         IN  <<s % BigBase>> \o BigAddFrom(a, b, i + 1, s \div BigBase)

BigAdd(a, b) == BigAddFrom(a, b, 1, 0)

\* a - b for a >= b
RECURSIVE BigSubFrom(_, _, _, _)
BigSubFrom(a, b, i, borrow) ==
    IF i > Len(a) THEN << >>
    ELSE LET d == BigDigit(a, i) - BigDigit(b, i) - borrow
         IN  IF d < 0
             THEN <<d + BigBase>> \o BigSubFrom(a, b, i + 1, 1)
             ELSE <<d>> \o BigSubFrom(a, b, i + 1, 0)

BigSub(a, b) == BigTrim(BigSubFrom(a, b, 1, 0))

\* a > b
RECURSIVE BigGreaterFrom(_, _, _)
BigGreaterFrom(a, b, i) ==
    IF i = 0 THEN FALSE
    ELSE IF a[i] # b[i] THEN a[i] > b[i]
    ELSE BigGreaterFrom(a, b, i - 1)

BigGreater(a, b) ==
    IF Len(a) # Len(b) THEN Len(a) > Len(b) ELSE BigGreaterFrom(a, b, Len(a))

\* a * d for a digit d
RECURSIVE BigMulDigitFrom(_, _, _, _)
BigMulDigitFrom(a, d, i, carry) ==
    IF i > Len(a)
    THEN (IF carry = 0 THEN << >> ELSE <<carry>>)
    ELSE LET p == a[i] * d + carry
         IN  <<p % BigBase>> \o BigMulDigitFrom(a, d, i + 1, p \div BigBase)

RECURSIVE BigMul(_, _)
BigMul(a, b) ==
    IF b = << >> THEN << >>
    ELSE BigTrim(BigAdd(BigMulDigitFrom(a, b[1], 1, 0),
                        <<0>> \o BigMul(a, Tail(b))))

\* Math.floor(a / 2), from the most significant digit down
RECURSIVE BigHalfFrom(_, _, _)
BigHalfFrom(a, i, rem) ==
    IF i = 0 THEN << >>
    ELSE LET cur == rem * BigBase + a[i]
         IN  BigHalfFrom(a, i - 1, cur % 2) \o <<cur \div 2>>

BigHalf(a) == BigTrim(BigHalfFrom(a, Len(a), 0))

\* Math.ceil(a / b) for 0 < a <= b * hi: the least n in lo..hi with b * n >= a
RECURSIVE BigCeilDivIn(_, _, _, _)
BigCeilDivIn(a, b, lo, hi) ==
    IF lo = hi THEN lo
    ELSE LET mid == (lo + hi) \div 2
         IN  IF BigGreater(a, BigMul(b, Big(mid)))
             THEN BigCeilDivIn(a, b, mid + 1, hi)
             ELSE BigCeilDivIn(a, b, lo, mid)

\* script.ts:13, 20
INITIAL_SUBSIDY_SATS == BigMul(Big(50), Big(SATS_PER_BTC))
TARGET_SATS == BigMul(Big(TARGET_BTC), Big(SATS_PER_BTC))

\* script.ts:88-107 on the program's constants
RECURSIVE blockHeightLoopBig(_, _, _)
blockHeightLoopBig(subsidy, remaining, blocks) ==
    IF subsidy # << >>
    THEN LET eraSupply == BigMul(subsidy, Big(HALVING_INTERVAL))
         IN  IF BigGreater(remaining, eraSupply)
             THEN blockHeightLoopBig(BigHalf(subsidy), BigSub(remaining, eraSupply),
                                     blocks + HALVING_INTERVAL)
             ELSE LET blocksNeeded ==
                          BigCeilDivIn(remaining, subsidy, 0, HALVING_INTERVAL)
                  IN  Some(blocks + blocksNeeded - 1)
    ELSE Null

\* script.ts:103 without the "- 1"
blockHeightForSupplyBigOffByOne(targetSats) ==
    LET r == blockHeightLoopBig(INITIAL_SUBSIDY_SATS, targetSats, 0)
    IN  IF r = Null THEN Null ELSE Some(Val(r) + 1)

blockHeightForSupplyBig(targetSats) ==
    blockHeightLoopBig(INITIAL_SUBSIDY_SATS, targetSats, 0)

-----------------------------------------------------------------------------
(* Fractions: the numbers the page computes with a division *)

RECURSIVE GCD(_, _)
GCD(a, b) == IF b = 0 THEN a ELSE GCD(b, a % b)

Abs(n) == IF n < 0 THEN -n ELSE n

\* num / den in lowest terms, den > 0
Frac(num, den) ==
    LET g == GCD(Abs(num), den)
    IN  <<num \div g, den \div g>>

FracOfInt(n) == <<n, 1>>
FracAdd(x, y) == Frac(x[1] * y[2] + y[1] * x[2], x[2] * y[2])
FracSub(x, y) == Frac(x[1] * y[2] - y[1] * x[2], x[2] * y[2])
FracMulInt(x, n) == Frac(x[1] * n, x[2])
FracLeq(x, y) == x[1] * y[2] <= y[1] * x[2]
FracMax(x, y) == IF FracLeq(x, y) THEN y ELSE x
\* Math.round(x / n) for an integer n > 0
FracRoundDiv(x, n) == (2 * x[1] + x[2] * n) \div (2 * x[2] * n)

\* script.ts:14-15
FIXED_BLOCK_TIME_MS == 10 * 60 * 1000
FALLBACK_BLOCK_TIME_MS == FIXED_BLOCK_TIME_MS

-----------------------------------------------------------------------------
(* The rate estimator *)

\* script.ts:114 without the test: every adjacent pair counts as a sample
RECURSIVE averageLoopEveryPair(_, _, _, _)
averageLoopEveryPair(blocks, i, totalSeconds, samples) ==
    IF i < Len(blocks)
    THEN LET delta == blocks[i].timestamp - blocks[i + 1].timestamp
         IN  averageLoopEveryPair(blocks, i + 1, totalSeconds + delta, samples + 1)
    ELSE <<totalSeconds, samples>>

\* script.ts:109-124, the loop: <<totalSeconds, samples>> after pairs i..
RECURSIVE averageLoop(_, _, _, _)
averageLoop(blocks, i, totalSeconds, samples) ==
    IF i < Len(blocks)
    THEN LET delta == blocks[i].timestamp - blocks[i + 1].timestamp
         IN  IF delta > 0
             THEN averageLoop(blocks, i + 1, totalSeconds + delta, samples + 1)
             ELSE averageLoop(blocks, i + 1, totalSeconds, samples)
    ELSE <<totalSeconds, samples>>

\* script.ts:123 dividing by the number of blocks in place of the samples
calculateAverageBlockTimeMsPerBlock(blocks) ==
    IF Len(blocks) < 2 THEN Null
    ELSE LET acc == averageLoop(blocks, 1, 0, 0)
         IN  IF acc[2] = 0 THEN Null
             ELSE Frac(acc[1] * 1000, Len(blocks))

\* script.ts:109-124
calculateAverageBlockTimeMs(blocks) ==
    IF Len(blocks) < 2 THEN Null
    ELSE LET acc == averageLoop(blocks, 1, 0, 0)
         IN  IF acc[2] = 0 THEN Null
             ELSE Frac(acc[1] * 1000, acc[2])

-----------------------------------------------------------------------------
(* The estimate state and its updates.  An estimate state is a record of    *)
(* the five variables of script.ts:28-33 that the projection reads.         *)

EstimateState ==
    [currentBlock |-> currentBlock,
     avgBlockTimeMs |-> avgBlockTimeMs,
     lastBlockTimeMs |-> lastBlockTimeMs,
     estimatedTargetTimeMs |-> estimatedTargetTimeMs,
     estimateMode |-> estimateMode]

\* script.ts:127 returning avgBlockTimeMs in both modes
getActiveBlockTimeMsAverageOnly(s) == s.avgBlockTimeMs

\* script.ts:126-128
getActiveBlockTimeMs(s) ==
    IF s.estimateMode = "fixed" THEN FracOfInt(FIXED_BLOCK_TIME_MS)
    ELSE s.avgBlockTimeMs

\* script.ts:131 testing the arguments for falsiness: a zero counts as absent
updateEstimatedTargetTimeFalsy(s, blocksLeft, anchorTimeMs) ==
    IF anchorTimeMs = Null \/ blocksLeft = Null
       \/ Val(anchorTimeMs) = 0 \/ Val(blocksLeft) = 0
    THEN s
    ELSE [s EXCEPT !.estimatedTargetTimeMs =
              FracAdd(FracOfInt(Val(anchorTimeMs)),
                      FracMulInt(getActiveBlockTimeMs(s), Val(blocksLeft)))]

\* script.ts:130-133
updateEstimatedTargetTime(s, blocksLeft, anchorTimeMs) ==
    IF anchorTimeMs = Null \/ blocksLeft = Null THEN s
    ELSE [s EXCEPT !.estimatedTargetTimeMs =
              FracAdd(FracOfInt(Val(anchorTimeMs)),
                      FracMulInt(getActiveBlockTimeMs(s), Val(blocksLeft)))]

\* script.ts:147, Array.prototype.sort is stable: x goes after every record
\* already placed whose height is not smaller
\* script.ts:147 with the comparator a.height - b.height
RECURSIVE InsertByHeightAscending(_, _)
InsertByHeightAscending(sorted, x) ==
    IF sorted = << >> THEN <<x>>
    ELSE IF Head(sorted).height - x.height > 0
         THEN <<x>> \o sorted
         ELSE <<Head(sorted)>> \o InsertByHeightAscending(Tail(sorted), x)

RECURSIVE InsertByHeight(_, _)
InsertByHeight(sorted, x) ==
    IF sorted = << >> THEN <<x>>
    ELSE IF x.height - Head(sorted).height > 0
         THEN <<x>> \o sorted
         ELSE <<Head(sorted)>> \o InsertByHeight(Tail(sorted), x)

\* script.ts:147 without the sort
SortByHeightDescUnsorted(blocks) == blocks

RECURSIVE SortByHeightDesc(_)
SortByHeightDesc(blocks) ==
    IF blocks = << >> THEN << >>
    ELSE InsertByHeight(SortByHeightDesc(SubSeq(blocks, 1, Len(blocks) - 1)),
                        blocks[Len(blocks)])

\* script.ts:158 without isNewBlock in the condition
PrimaryUpdateTimestampOnly(s, blocks) ==
    LET sortedBlocks == SortByHeightDesc(blocks)
        tipBlock == sortedBlocks[1]
        nextHeight == tipBlock.height
        s1 == [s EXCEPT !.currentBlock = Some(nextHeight)]
        averageMs == calculateAverageBlockTimeMs(sortedBlocks)
        s2 == IF averageMs # Null /\ averageMs[1] # 0
              THEN [s1 EXCEPT !.avgBlockTimeMs = averageMs]
              ELSE s1
        blockTimeMs == tipBlock.timestamp * 1000
    IN  IF s2.estimatedTargetTimeMs = Null
           \/ s2.lastBlockTimeMs # Some(blockTimeMs)
        THEN updateEstimatedTargetTime(
                 [s2 EXCEPT !.lastBlockTimeMs = Some(blockTimeMs)],
                 Some(Max(0, TARGET_BLOCK_HEIGHT - Val(s2.currentBlock))),
                 Some(blockTimeMs))
        ELSE s2

\* script.ts:147-161 where a batch without an average puts avgBlockTimeMs back
\* to FALLBACK_BLOCK_TIME_MS
PrimaryUpdateResetsRate(s, blocks) ==
    LET sortedBlocks == SortByHeightDesc(blocks)
        tipBlock == sortedBlocks[1]
        nextHeight == tipBlock.height
        isNewBlock == s.currentBlock = Null \/ nextHeight # Val(s.currentBlock)
        s1 == [s EXCEPT !.currentBlock = Some(nextHeight)]
        averageMs == calculateAverageBlockTimeMs(sortedBlocks)
        s2 == IF averageMs # Null /\ averageMs[1] # 0
              THEN [s1 EXCEPT !.avgBlockTimeMs = averageMs]
              ELSE [s1 EXCEPT !.avgBlockTimeMs = FracOfInt(FALLBACK_BLOCK_TIME_MS)]
        blockTimeMs == tipBlock.timestamp * 1000
    IN  IF isNewBlock \/ s2.estimatedTargetTimeMs = Null
           \/ s2.lastBlockTimeMs # Some(blockTimeMs)
        THEN updateEstimatedTargetTime(
                 [s2 EXCEPT !.lastBlockTimeMs = Some(blockTimeMs)],
                 Some(Max(0, TARGET_BLOCK_HEIGHT - Val(s2.currentBlock))),
                 Some(blockTimeMs))
        ELSE s2

\* script.ts:147-161, fetchBlockData once the response is a non-empty list
PrimaryUpdate(s, blocks) ==
    LET sortedBlocks == SortByHeightDesc(blocks)
        tipBlock == sortedBlocks[1]
        nextHeight == tipBlock.height
        isNewBlock == s.currentBlock = Null \/ nextHeight # Val(s.currentBlock)
        s1 == [s EXCEPT !.currentBlock = Some(nextHeight)]
        averageMs == calculateAverageBlockTimeMs(sortedBlocks)
        s2 == IF averageMs # Null /\ averageMs[1] # 0
              THEN [s1 EXCEPT !.avgBlockTimeMs = averageMs]
              ELSE s1
        blockTimeMs == tipBlock.timestamp * 1000
    IN  IF isNewBlock \/ s2.estimatedTargetTimeMs = Null
           \/ s2.lastBlockTimeMs # Some(blockTimeMs)
        THEN updateEstimatedTargetTime(
                 [s2 EXCEPT !.lastBlockTimeMs = Some(blockTimeMs)],
                 Some(Max(0, TARGET_BLOCK_HEIGHT - Val(s2.currentBlock))),
                 Some(blockTimeMs))
        ELSE s2

\* script.ts:180-185 without the condition of line 182: every fallback
\* response moves the anchor to Date.now()
FallbackUpdateAlwaysAnchors(s, height, dateNow) ==
    LET s1 == [s EXCEPT !.currentBlock = Some(height)]
    IN  updateEstimatedTargetTime(
            [s1 EXCEPT !.lastBlockTimeMs = Some(dateNow)],
            Some(Max(0, TARGET_BLOCK_HEIGHT - Val(s1.currentBlock))),
            Some(dateNow))

\* script.ts:180-185 with the stored anchor, when there is one, in place of
\* Date.now() at line 183
FallbackUpdateKeepsAnchor(s, height, dateNow) ==
    LET isNewBlock == s.currentBlock = Null \/ height # Val(s.currentBlock)
        s1 == [s EXCEPT !.currentBlock = Some(height)]
        anchor == IF s.lastBlockTimeMs # Null THEN s.lastBlockTimeMs
                  ELSE Some(dateNow)
    IN  IF isNewBlock \/ s1.estimatedTargetTimeMs = Null
        THEN updateEstimatedTargetTime(
                 [s1 EXCEPT !.lastBlockTimeMs = anchor],
                 Some(Max(0, TARGET_BLOCK_HEIGHT - Val(s1.currentBlock))),
                 anchor)
        ELSE s1

\* script.ts:180-185, fetchBlockHeightFallback once the height is finite
FallbackUpdate(s, height, dateNow) ==
    LET isNewBlock == s.currentBlock = Null \/ height # Val(s.currentBlock)
        s1 == [s EXCEPT !.currentBlock = Some(height)]
    IN  IF isNewBlock \/ s1.estimatedTargetTimeMs = Null
        THEN updateEstimatedTargetTime(
                 [s1 EXCEPT !.lastBlockTimeMs = Some(dateNow)],
                 Some(Max(0, TARGET_BLOCK_HEIGHT - Val(s1.currentBlock))),
                 Some(dateNow))
        ELSE s1

\* script.ts:341 alone: the mode is stored and the projection is left as it was
ToggleUpdateModeOnly(s, checked) ==
    [s EXCEPT !.estimateMode = IF checked THEN "average" ELSE "fixed"]

\* script.ts:340-344, the change handler of the mode toggle
ToggleUpdate(s, checked) ==
    LET s1 == [s EXCEPT !.estimateMode = IF checked THEN "average" ELSE "fixed"]
    IN  IF s1.currentBlock # Null /\ s1.lastBlockTimeMs # Null
        THEN updateEstimatedTargetTime(
                 s1,
                 Some(Max(0, TARGET_BLOCK_HEIGHT - Val(s1.currentBlock))),
                 s1.lastBlockTimeMs)
        ELSE s1

\* script.ts:201 taking the issuance up to the block before currentBlock
calculateRemainingBeforeBlock(s) ==
    IF s.currentBlock = Null THEN Null
    ELSE LET blocksLeft == Max(0, TARGET_BLOCK_HEIGHT - Val(s.currentBlock))
             totalMinedSats == totalSubsidyAtHeight(Some(Val(s.currentBlock) - 1))
             btcLeftSats == Max(0, ScaledTargetSats - totalMinedSats)
         IN  <<[blocksLeft |-> blocksLeft,
                totalMinedSats |-> totalMinedSats,
                btcLeftSats |-> btcLeftSats]>>

\* script.ts:197-205
calculateRemaining(s) ==
    IF s.currentBlock = Null THEN Null
    ELSE LET blocksLeft == Max(0, TARGET_BLOCK_HEIGHT - Val(s.currentBlock))
             totalMinedSats == totalSubsidyAtHeight(s.currentBlock)
             btcLeftSats == Max(0, ScaledTargetSats - totalMinedSats)
         IN  <<[blocksLeft |-> blocksLeft,
                totalMinedSats |-> totalMinedSats,
                btcLeftSats |-> btcLeftSats]>>

-----------------------------------------------------------------------------
(* The page.  A text field is <<kind, value>>: <<"unset", 0>> before the    *)
(* script writes it, <<"num", n>> for a formatted number, and the fixed     *)
(* texts <<"API Error", 0>>, <<"Reached", 0>> and <<"--", 0>>.  The         *)
(* countdown digits and the "Last update" line, which show the clock and    *)
(* feed nothing back into the script, are left out.                         *)

\* what index.html holds before the script runs
InitialElements ==
    [currentBlockError |-> FALSE,
     currentBlock |-> <<"unset", 0>>,
     blocksLeft |-> <<"unset", 0>>,
     btcLeft |-> <<"unset", 0>>,
     estimatedDate |-> <<"unset", 0, 1>>,
     btcMined |-> <<"unset", 0>>,
     progressPercent |-> <<"unset", 0>>,
     avgBlockTime |-> <<"unset", 0>>]

\* script.ts:219-225: the rounded number of seconds decides the text
formatDurationShort(ms) ==
    IF ms[1] <= 0 THEN <<"--", 0>> ELSE <<"num", FracRoundDiv(ms, 1000)>>

\* 2 * 50 * HALVING_INTERVAL is script.ts:10 of the scaled schedule
ScaledTotalBtcSupply == 2 * 50 * ScaledHalvingInterval

\* script.ts:292-322; the percentage is shown with two decimals
updateStatsDisplay(el, s, data, msLeft, dateNow) ==
    LET totalSats == ScaledTotalBtcSupply * ScaledSatsPerBtc
        hundredths == Min((2 * data.totalMinedSats * 10000 + totalSats)
                              \div (2 * totalSats), 10000)
    IN  [el EXCEPT
           !.currentBlockError = FALSE,
           !.currentBlock = <<"num", Val(s.currentBlock)>>,
           !.blocksLeft = <<"num", data.blocksLeft>>,
           !.btcLeft = <<"num", data.btcLeftSats>>,
           !.estimatedDate =
               IF data.blocksLeft = 0 THEN <<"Reached", 0, 1>>
               ELSE IF msLeft # Null
                    THEN <<"date">> \o FracAdd(FracOfInt(dateNow), msLeft)
                    ELSE <<"--", 0, 1>>,
           !.btcMined = <<"num", data.totalMinedSats>>,
           !.progressPercent = <<"num", hundredths>>,
           !.avgBlockTime = formatDurationShort(getActiveBlockTimeMs(s))]

\* script.ts:350-363
updateDisplay(el, s, dateNow) ==
    LET data == calculateRemaining(s)
    IN  IF data = Null
        THEN el
        ELSE LET msLeft ==
                     IF s.estimatedTargetTimeMs = Null THEN Null
                     ELSE FracMax(FracOfInt(0),
                                  FracSub(s.estimatedTargetTimeMs, FracOfInt(dateNow)))
             IN  updateStatsDisplay(el, s, Val(data), msLeft, dateNow)

\* script.ts:190-191
ShowApiError(el) ==
    [el EXCEPT !.currentBlockError = TRUE, !.currentBlock = <<"API Error", 0>>]

-----------------------------------------------------------------------------
(* The feed and the clock *)

MaxFeedHeight == 3      \* the feed's tip height stays within 0..MaxFeedHeight
MaxTimestamp == 2       \* block timestamps are 0..MaxTimestamp seconds
MaxBatch == 2           \* a primary response holds 1..MaxBatch records
MaxClock == 1           \* Date.now() is 0..MaxClock seconds, in ms

\* the records a response may hold when the feed's tip is at height tip
Records(tip) ==
    [height : {h \in {tip - 1, tip} : h >= 0}, timestamp : 0..MaxTimestamp]

RECURSIVE SeqsOf(_, _)
SeqsOf(S, n) ==
    IF n = 0 THEN {<< >>}
    ELSE {<<x>> \o t : x \in S, t \in SeqsOf(S, n - 1)}

\* script.ts:142-145: the valid responses of the primary feed, records in any
\* order, the tip among them
BatchesAt(tip) ==
    {b \in UNION {SeqsOf(Records(tip), n) : n \in 1..MaxBatch} :
        \E i \in 1..Len(b) : b[i].height = tip}

Batches == [tip \in 0..MaxFeedHeight |-> BatchesAt(tip)]

-----------------------------------------------------------------------------
(* Poll cycles.  A cycle in flight is [first, stage, tip, overtaken]:       *)
(* whether it is the cycle startCountdown awaits before it sets the timers, *)
(* the request it waits for ("primary" or "fallback"), the feed's tip       *)
(* height when that request was served, and whether a cycle that started    *)
(* later has already completed.  The timer's and the visibility handler's   *)
(* cycles run the same code, so a cycle does not record which of the two    *)
(* started it.                                                              *)

Triggers == {"initial", "interval", "visible"}

NewPoll(trigger, tip) ==
    [first |-> trigger = "initial", stage |-> "primary", tip |-> tip,
     overtaken |-> FALSE]

\* the cycles left in flight when cycle i completes
Complete(i) ==
    [j \in 1..(Len(polls) - 1) |->
        IF j < i THEN [polls[j] EXCEPT !.overtaken = TRUE] ELSE polls[j + 1]]

\* script.ts:114-115 on the sorted batch: some adjacent pair has a positive delta
HasSample(sortedBlocks) ==
    \E k \in 1..(Len(sortedBlocks) - 1) :
        sortedBlocks[k].timestamp > sortedBlocks[k + 1].timestamp

\* The latest completed cycle: how it ended (op), what fetchBlockData returned
\* (ret), whether a cycle started after it had completed before it (stale), and
\* the handler's locals: the height received, isNewBlock, blockTimeMs, averageMs,
\* and whether the sorted batch held a pair with a positive delta (hasSample).
NoCycle ==
    [op |-> "none", ret |-> "none", stale |-> FALSE, height |-> Null,
     isNewBlock |-> FALSE, blockTimeMs |-> Null, averageMs |-> Null,
     hasSample |-> FALSE]

SetEstimateState(s) ==
    /\ currentBlock' = s.currentBlock
    /\ avgBlockTimeMs' = s.avgBlockTimeMs
    /\ lastBlockTimeMs' = s.lastBlockTimeMs
    /\ estimatedTargetTimeMs' = s.estimatedTargetTimeMs
    /\ estimateMode' = s.estimateMode

\* script.ts:366-372: after the first cycle startCountdown sets both timers
AfterCycle(i) ==
    /\ polls' = Complete(i)
    /\ countdownInterval' =
           IF polls[i].first THEN Some(1) ELSE countdownInterval

\* script.ts:389-391 with script.ts:27-33: the mode toggle is set up and
\* startCountdown has sent the first primary request
Init ==
    /\ currentBlock = Null
    /\ avgBlockTimeMs = FracOfInt(FALLBACK_BLOCK_TIME_MS)
    /\ lastBlockTimeMs = Null
    /\ estimatedTargetTimeMs = Null
    /\ estimateMode = "average"
    /\ countdownInterval = Null
    /\ elements = InitialElements
    /\ now = 0
    /\ feedHeight \in 0..MaxFeedHeight
    /\ polls = <<NewPoll("initial", feedHeight)>>
    /\ last = NoCycle
    /\ call = [fn |-> "none", a |-> Null, b |-> Null, ra |-> Null, rb |-> Null]

\* script.ts:375-378 and 382-387: the interval timer or the page becoming
\* visible starts a cycle: fetchBlockData sends the primary request, which the
\* feed serves at its tip height of that moment; the feed's counter never
\* decreases.  The record of the latest completed cycle is dropped, or kept for
\* the properties that compare two consecutive cycles.
StartPoll(trigger, tip, remember) ==
    /\ Len(polls) < Cardinality(Triggers) - 1
    /\ trigger = "interval" => countdownInterval # Null
    /\ tip >= feedHeight
    /\ feedHeight' = tip
    /\ polls' = Append(polls, NewPoll(trigger, tip))
    /\ last' = IF remember THEN last ELSE NoCycle
    /\ UNCHANGED <<currentBlock, avgBlockTimeMs, lastBlockTimeMs,
                   estimatedTargetTimeMs, estimateMode, countdownInterval,
                   elements, now, call>>

\* script.ts:138-163 then 369/377/385: the primary response of cycle i is the
\* non-empty list blocks; the cycle returns true and the page is refreshed
PrimaryOk(i, blocks) ==
    /\ polls[i].stage = "primary"
    /\ \E s \in {PrimaryUpdate(EstimateState, blocks)} :
       \E sortedBlocks \in {SortByHeightDesc(blocks)} :
           /\ SetEstimateState(s)
           /\ elements' = updateDisplay(elements, s, now)
           /\ last' = [op |-> "PrimaryOk", ret |-> "true",
                       stale |-> polls[i].overtaken,
                       height |-> Some(sortedBlocks[1].height),
                       isNewBlock |-> (currentBlock = Null
                                       \/ sortedBlocks[1].height # Val(currentBlock)),
                       blockTimeMs |-> Some(sortedBlocks[1].timestamp * 1000),
                       averageMs |-> calculateAverageBlockTimeMs(sortedBlocks),
                       hasSample |-> HasSample(sortedBlocks)]
    /\ AfterCycle(i)
    /\ UNCHANGED <<now, feedHeight, call>>

\* script.ts:138-145 then 164-172: the primary request of cycle i fails (network
\* error, status not ok, or a response that is no non-empty list); the catch
\* block sends the fallback request, which the feed serves at its tip height
\* of that moment
PrimaryFail(i, tip) ==
    /\ polls[i].stage = "primary"
    /\ tip >= feedHeight
    /\ feedHeight' = tip
    /\ polls' = [polls EXCEPT ![i].stage = "fallback", ![i].tip = tip]
    /\ UNCHANGED <<currentBlock, avgBlockTimeMs, lastBlockTimeMs,
                   estimatedTargetTimeMs, estimateMode, countdownInterval,
                   elements, now, last, call>>

\* script.ts:172-187 then 369/377/385: the fallback response of cycle i is a
\* finite height; the cycle returns true and the page is refreshed
FallbackOk(i) ==
    /\ polls[i].stage = "fallback"
    /\ \E s \in {FallbackUpdate(EstimateState, polls[i].tip, now)} :
           /\ SetEstimateState(s)
           /\ elements' = updateDisplay(elements, s, now)
           /\ last' = [NoCycle EXCEPT !.op = "FallbackOk", !.ret = "true",
                                      !.stale = polls[i].overtaken,
                                      !.height = Some(polls[i].tip),
                                      !.isNewBlock = (currentBlock = Null
                                          \/ polls[i].tip # Val(currentBlock))]
    /\ AfterCycle(i)
    /\ UNCHANGED <<now, feedHeight, call>>

\* script.ts:188-192 with the catch block clearing what the last successful
\* cycle stored
FallbackFailClears(i) ==
    /\ polls[i].stage = "fallback"
    /\ elements' = ShowApiError(elements)
    /\ last' = [NoCycle EXCEPT !.op = "FallbackFail", !.ret = "false",
                               !.stale = polls[i].overtaken]
    /\ AfterCycle(i)
    /\ currentBlock' = Null
    /\ lastBlockTimeMs' = Null
    /\ estimatedTargetTimeMs' = Null
    /\ UNCHANGED <<avgBlockTimeMs, estimateMode, now, feedHeight, call>>

\* script.ts:172-178 then 188-192 then 369/377/385: the fallback request of
\* cycle i fails too; the cycle returns false and the page is refreshed
FallbackFail(i) ==
    /\ polls[i].stage = "fallback"
    /\ elements' = updateDisplay(ShowApiError(elements), EstimateState, now)
    /\ last' = [NoCycle EXCEPT !.op = "FallbackFail", !.ret = "false",
                               !.stale = polls[i].overtaken]
    /\ AfterCycle(i)
    /\ UNCHANGED <<currentBlock, avgBlockTimeMs, lastBlockTimeMs,
                   estimatedTargetTimeMs, estimateMode, now, feedHeight, call>>

\* script.ts:340-346: the user flips the mode toggle
ToggleMode ==
    /\ \E s \in {ToggleUpdate(EstimateState, estimateMode # "average")} :
           /\ SetEstimateState(s)
           /\ elements' = updateDisplay(elements, s, now)
    /\ UNCHANGED <<countdownInterval, now, feedHeight, polls, last, call>>

\* script.ts:372: the one-second timer refreshes the page
Tick ==
    /\ countdownInterval # Null
    /\ elements' = updateDisplay(elements, EstimateState, now)
    /\ UNCHANGED <<currentBlock, avgBlockTimeMs, lastBlockTimeMs,
                   estimatedTargetTimeMs, estimateMode, countdownInterval,
                   now, feedHeight, polls, last, call>>

\* a second passes
ClockAdvance ==
    /\ now < MaxClock * 1000
    /\ now' = now + 1000
    /\ UNCHANGED <<currentBlock, avgBlockTimeMs, lastBlockTimeMs,
                   estimatedTargetTimeMs, estimateMode, countdownInterval,
                   elements, feedHeight, polls, last, call>>

\* the handlers and the environment's steps other than the start of a cycle
Handlers ==
    \/ \E i \in 1..Len(polls) : \E blocks \in Batches[polls[i].tip] :
           PrimaryOk(i, blocks)
    \/ \E i \in 1..Len(polls) : \E tip \in 0..MaxFeedHeight : PrimaryFail(i, tip)
    \/ \E i \in 1..Len(polls) : FallbackOk(i)
    \/ \E i \in 1..Len(polls) : FallbackFail(i)
    \/ ToggleMode
    \/ Tick
    \/ ClockAdvance

\* normal operation: a cycle starts when no other is in flight
Next ==
    \/ \E trigger \in {"interval", "visible"} : \E tip \in 0..MaxFeedHeight :
           polls = << >> /\ StartPoll(trigger, tip, FALSE)
    \/ Handlers

Spec == Init /\ [][Next]_vars

\* a cycle may start while another is still waiting for its response: two
\* cycles overlap (the timer's and the visibility handler's, or the first
\* cycle and the visibility handler's)
NextOverlap ==
    \/ \E trigger \in {"interval", "visible"} : \E tip \in 0..MaxFeedHeight :
           StartPoll(trigger, tip, FALSE)
    \/ Handlers

SpecOverlap == Init /\ [][NextOverlap]_vars

\* normal operation, with the latest completed cycle remembered while the next
\* one runs
NextConsecutive ==
    \/ \E trigger \in {"interval", "visible"} : \E tip \in 0..MaxFeedHeight :
           polls = << >> /\ StartPoll(trigger, tip, TRUE)
    \/ Handlers

SpecConsecutive == Init /\ [][NextConsecutive]_vars

-----------------------------------------------------------------------------
(* The pure functions, called on every argument of a bounded range *)

\* floor(A / 2^k), the per-block amount of era k
EraSubsidy(k) == ScaledInitialSubsidy \div (2 ^ k)

\* the eras that issue anything; A < 2^30
Eras == {k \in 0..30 : EraSubsidy(k) > 0}

\* the total issuance of the whole schedule
EraSupply(k) == ScaledHalvingInterval * EraSubsidy(k)

RECURSIVE EraSupplyFrom(_)
EraSupplyFrom(k) == IF k > 30 THEN 0 ELSE EraSupply(k) + EraSupplyFrom(k + 1)

ScheduleTotal == EraSupplyFrom(0)

HeightArgs ==
    {Null} \cup {Some(h) : h \in -2..(Cardinality(Eras) * ScaledHalvingInterval + 1)}
SatsArgs == -1..(ScheduleTotal + 2)

NoCall == [fn |-> "none", a |-> Null, b |-> Null, ra |-> Null, rb |-> Null]

MachineIdle ==
    UNCHANGED <<currentBlock, avgBlockTimeMs, lastBlockTimeMs,
                estimatedTargetTimeMs, estimateMode, countdownInterval,
                elements, now, feedHeight, polls, last>>

\* script.ts:70-85 on two heights
CallTotalSubsidyAtHeight(h1, h2) ==
    /\ call = NoCall
    /\ call' = [fn |-> "totalSubsidyAtHeight", a |-> h1, b |-> h2,
                ra |-> Some(totalSubsidyAtHeight(h1)),
                rb |-> Some(totalSubsidyAtHeight(h2))]
    /\ MachineIdle

\* script.ts:88-107
CallBlockHeightForSupply(targetSats) ==
    /\ call = NoCall
    /\ call' = [NoCall EXCEPT !.fn = "blockHeightForSupply",
                              !.a = Some(targetSats),
                              !.ra = blockHeightForSupply(targetSats)]
    /\ MachineIdle

\* script.ts:88-107 on the result of script.ts:70-85
CallBlockHeightForSupplyOfTotal(h) ==
    /\ call = NoCall
    /\ call' = [NoCall EXCEPT !.fn = "blockHeightForSupplyOfTotal",
                              !.a = h,
                              !.ra = Some(totalSubsidyAtHeight(h)),
                              !.rb = blockHeightForSupply(totalSubsidyAtHeight(h))]
    /\ MachineIdle

MaxWindow == 4     \* a window holds 0..MaxWindow samples
MaxSteps == 3      \* timestamps are 0, 600, ..., MaxSteps * 600 seconds

\* the sample windows the estimator is called on, most recent first as sorted
\* by script.ts:147; the heights fall by one from sample to sample
Windows ==
    {[k \in 1..Len(ts) |-> [height |-> Len(ts) - k, timestamp |-> ts[k]]] :
        ts \in UNION {SeqsOf({600 * j : j \in 0..MaxSteps}, n) : n \in 0..MaxWindow}}

\* script.ts:109-124
CallCalculateAverageBlockTimeMs(blocks) ==
    /\ call = NoCall
    /\ call' = [NoCall EXCEPT !.fn = "calculateAverageBlockTimeMs",
                              !.a = Some(blocks),
                              !.ra = calculateAverageBlockTimeMs(blocks)]
    /\ MachineIdle

\* script.ts:197-205 with currentBlock at height h
CallCalculateRemaining(h) ==
    /\ call = NoCall
    /\ call' = [NoCall EXCEPT !.fn = "calculateRemaining",
                              !.a = h,
                              !.ra = calculateRemaining(
                                         [EstimateState EXCEPT !.currentBlock = h])]
    /\ MachineIdle

\* script.ts:20-21 with the program's constants
Startup ==
    /\ call = NoCall
    /\ call' = [NoCall EXCEPT !.fn = "TARGET_BLOCK",
                              !.ra = blockHeightForSupplyBig(TARGET_SATS)]
    /\ MachineIdle

\* the call returns
Return ==
    /\ call # NoCall
    /\ call' = NoCall
    /\ MachineIdle

NextPure ==
    \/ \E h1 \in HeightArgs : \E h2 \in HeightArgs : CallTotalSubsidyAtHeight(h1, h2)
    \/ \E targetSats \in SatsArgs : CallBlockHeightForSupply(targetSats)
    \/ \E h \in HeightArgs : CallBlockHeightForSupplyOfTotal(h)
    \/ \E blocks \in Windows : CallCalculateAverageBlockTimeMs(blocks)
    \/ \E h \in HeightArgs : CallCalculateRemaining(h)
    \/ Startup
    \/ Return

\* the page state is the constructed one; only the functions are called
InitPure == Init /\ feedHeight = 0

SpecPure == InitPure /\ [][NextPure]_vars

-----------------------------------------------------------------------------
(* The issuance model's claims, under SpecPure *)

\* the closed-form era summation at height h >= 0
ClosedFormTerm(h, k) ==
    Min(Max(h + 1 - k * ScaledHalvingInterval, 0), ScaledHalvingInterval)
        * (ScaledInitialSubsidy \div (2 ^ k))

RECURSIVE ClosedFormFrom(_, _)
ClosedFormFrom(h, k) ==
    IF k > 30 THEN 0 ELSE ClosedFormTerm(h, k) + ClosedFormFrom(h, k + 1)

ClosedForm(h) == ClosedFormFrom(h, 0)

\* C1: for every threshold t with 1 <= t <= the total issuance of the
\* schedule, blockHeightForSupply(t) is a height h whose cumulative issuance
\* reaches t while that of h - 1 does not.
C1_FirstCrossing ==
    (call.fn = "blockHeightForSupply"
        /\ 1 <= Val(call.a) /\ Val(call.a) <= ScheduleTotal)
    => /\ call.ra # Null
       /\ totalSubsidyAtHeight(call.ra) >= Val(call.a)
       /\ totalSubsidyAtHeight(Some(Val(call.ra) - 1)) < Val(call.a)

\* a threshold met in a later era, strictly inside it
C1_Witness ==
    /\ call.fn = "blockHeightForSupply"
    /\ ScaledInitialSubsidy * ScaledHalvingInterval < Val(call.a)
    /\ Val(call.a) <= ScheduleTotal
    /\ call.ra # Null
    /\ totalSubsidyAtHeight(call.ra) > Val(call.a)
    /\ totalSubsidyAtHeight(Some(Val(call.ra) - 1)) < Val(call.a)

\* C2 as stated: the target counter value computed at startup from 50 * 10^8
\* units per block, eras of 210000 blocks and the threshold 20,000,000 * 10^8
\* units is 6,929,999.
C2_Stated == call.fn = "TARGET_BLOCK" => call.ra = Some(6929999)

\* C2, amended: that target counter value is 939,999.
C2_TargetIs939999 == call.fn = "TARGET_BLOCK" => call.ra = Some(939999)

C2_Witness == call.fn = "TARGET_BLOCK" /\ call.ra = Some(939999)

\* C9: for every height h >= 0, totalSubsidyAtHeight(h) equals the closed-form
\* sum over the eras k of min(max(h + 1 - k * L, 0), L) * floor(A / 2^k).
C9_ClosedForm ==
    (call.fn = "totalSubsidyAtHeight" /\ call.a # Null /\ Val(call.a) >= 0)
    => Val(call.ra) = ClosedForm(Val(call.a))

\* a height in the third era or later
C9_Witness ==
    /\ call.fn = "totalSubsidyAtHeight"
    /\ call.a # Null
    /\ Val(call.a) >= 2 * ScaledHalvingInterval
    /\ Val(call.ra) = ClosedForm(Val(call.a))
    /\ Val(call.ra) < ScaledInitialSubsidy * (Val(call.a) + 1)

\* C10: totalSubsidyAtHeight is never negative, never above the total issuance
\* of the schedule, and non-decreasing: for heights h1 <= h2, negative ones
\* included, 0 <= totalSubsidyAtHeight(h1) <= totalSubsidyAtHeight(h2).
C10_Monotone ==
    (call.fn = "totalSubsidyAtHeight")
    => /\ 0 <= Val(call.ra) /\ Val(call.ra) <= ScheduleTotal
       /\ (call.a # Null /\ call.b # Null /\ Val(call.a) <= Val(call.b))
              => Val(call.ra) <= Val(call.rb)

\* a negative height, worth 0, below a height of a later era
C10_Witness ==
    /\ call.fn = "totalSubsidyAtHeight"
    /\ call.a # Null /\ call.b # Null
    /\ Val(call.a) < 0 /\ Val(call.ra) = 0
    /\ Val(call.b) >= ScaledHalvingInterval
    /\ Val(call.rb) > Val(call.ra)


-----------------------------------------------------------------------------
(* Poll cycles and the estimate state.  A step that shortens polls is the   *)
(* completion of a cycle, and last' then describes that cycle.              *)

CycleCompletes == Len(polls') < Len(polls)

\* the request of a cycle in flight fails and its fallback request is sent
PrimaryFails ==
    /\ Len(polls') = Len(polls)
    /\ \E i \in 1..Len(polls) :
           polls[i].stage = "primary" /\ polls'[i].stage = "fallback"

\* the rate the projection uses in the current mode, script.ts:126-128
ActiveRate ==
    IF estimateMode = "fixed" THEN <<10 * 60 * 1000, 1>> ELSE avgBlockTimeMs

\* C3: when two cycles overlap and the feed's counter never decreases, the
\* result of a cycle that completes after a cycle started later has already
\* completed is discarded: it changes none of currentBlock, lastBlockTimeMs,
\* avgBlockTimeMs and estimatedTargetTimeMs, so currentBlock never decreases.
C3_StaleDiscarded ==
    [][/\ (CycleCompletes /\ last'.stale)
           => UNCHANGED <<currentBlock, lastBlockTimeMs, avgBlockTimeMs,
                          estimatedTargetTimeMs>>
       /\ (currentBlock # Null)
           => (currentBlock' # Null /\ Val(currentBlock') >= Val(currentBlock))
      ]_vars

\* C4: a cycle whose primary request and fallback request both fail leaves
\* currentBlock, avgBlockTimeMs, lastBlockTimeMs and estimatedTargetTimeMs as
\* they were, at the failure of either request, and returns false.
C4_TotalFailureKeepsEstimate ==
    [][(PrimaryFails \/ (CycleCompletes /\ last'.op = "FallbackFail"))
           => /\ UNCHANGED <<currentBlock, avgBlockTimeMs, lastBlockTimeMs,
                             estimatedTargetTimeMs>>
              /\ CycleCompletes => last'.ret = "false"
      ]_vars

\* a cycle failed twice after an earlier one had stored a height and a
\* projection, which are still there
C4_Witness ==
    /\ last.op = "FallbackFail"
    /\ last.ret = "false"
    /\ currentBlock # Null
    /\ lastBlockTimeMs # Null
    /\ estimatedTargetTimeMs # Null
    /\ avgBlockTimeMs # <<10 * 60 * 1000, 1>>

\* C5: after a cycle in which both requests fail, and the refresh of the page
\* that follows it, the page shows the error indicator in place of the current
\* height, whether or not an earlier cycle had succeeded, and the projection
\* and progress fields keep their last values.
C5_ErrorShown ==
    [][(CycleCompletes /\ last'.op = "FallbackFail")
           => /\ elements'.currentBlockError
              /\ elements'.currentBlock = <<"API Error", 0>>
              /\ elements'.blocksLeft = elements.blocksLeft
              /\ elements'.btcLeft = elements.btcLeft
              /\ elements'.btcMined = elements.btcMined
              /\ elements'.progressPercent = elements.progressPercent
              /\ elements'.avgBlockTime = elements.avgBlockTime
      ]_vars

\* C6: in average mode, when two consecutive cycles both succeed on the primary
\* request with the same height and their batches give different averages, the
\* projected instant changes at the second one, and the height and the fields
\* derived from it (blocks left, BTC mined, BTC left) do not.
C6_RateChangeMovesProjection ==
    [][(/\ CycleCompletes
        /\ last.op = "PrimaryOk"
        /\ last'.op = "PrimaryOk"
        /\ last'.height = last.height
        /\ last.averageMs # Null
        /\ last'.averageMs # Null
        /\ last'.averageMs # last.averageMs
        /\ estimateMode = "average")
           => /\ estimatedTargetTimeMs' # estimatedTargetTimeMs
              /\ currentBlock' = currentBlock
              /\ elements'.blocksLeft = elements.blocksLeft
              /\ elements'.btcMined = elements.btcMined
              /\ elements'.btcLeft = elements.btcLeft
      ]_vars

\* C7: a successful cycle (primary or fallback) that finds the height
\* unchanged, a projection present, the active rate unchanged and, on the
\* primary path, the tip's timestamp equal to the stored anchor, leaves
\* lastBlockTimeMs and estimatedTargetTimeMs as they were; a fallback response
\* with an unchanged height does not move the anchor to the current time.
C7_RecomputedOnlyOnChange ==
    [][(/\ CycleCompletes
        /\ last'.op \in {"PrimaryOk", "FallbackOk"}
        /\ currentBlock # Null
        /\ last'.height = currentBlock
        /\ estimatedTargetTimeMs # Null
        /\ ActiveRate' = ActiveRate
        /\ last'.op = "PrimaryOk" => last'.blockTimeMs = lastBlockTimeMs)
           => UNCHANGED <<lastBlockTimeMs, estimatedTargetTimeMs>>
      ]_vars

\* a fallback response repeated the stored height while the anchor, a block's
\* timestamp, lay ahead of the clock: the anchor was not moved
C7_Witness ==
    /\ last.op = "FallbackOk"
    /\ ~last.isNewBlock
    /\ last.height = currentBlock
    /\ estimatedTargetTimeMs # Null
    /\ lastBlockTimeMs # Null
    /\ Val(lastBlockTimeMs) > now

\* C8: when the primary request fails and the fallback succeeds with a height
\* different from the stored one, or with no projection yet, lastBlockTimeMs
\* becomes the time of the fallback response, avgBlockTimeMs is left as it
\* was, and estimatedTargetTimeMs becomes
\* anchor + max(0, target - height) * (the rate of the current mode).
C8_FallbackNewCounter ==
    [][(/\ CycleCompletes
        /\ last'.op = "FallbackOk"
        /\ \/ currentBlock = Null
           \/ last'.height # currentBlock
           \/ estimatedTargetTimeMs = Null)
           => /\ lastBlockTimeMs' = Some(now)
              /\ avgBlockTimeMs' = avgBlockTimeMs
              /\ currentBlock' = last'.height
              /\ estimatedTargetTimeMs' =
                     FracAdd(<<now, 1>>,
                             FracMulInt(ActiveRate,
                                        Max(0, TARGET_BLOCK_HEIGHT
                                                   - Val(last'.height))))
      ]_vars

\* a fallback response brought a new height, short of the target, after a
\* primary response had stored an average and a second had passed
C8_Witness ==
    /\ last.op = "FallbackOk"
    /\ last.isNewBlock
    /\ now > 0
    /\ lastBlockTimeMs = Some(now)
    /\ avgBlockTimeMs # <<10 * 60 * 1000, 1>>
    /\ estimateMode = "average"
    /\ Val(currentBlock) < TARGET_BLOCK_HEIGHT
    /\ estimatedTargetTimeMs =
           FracAdd(<<now, 1>>,
                   FracMulInt(avgBlockTimeMs,
                              TARGET_BLOCK_HEIGHT - Val(currentBlock)))

-----------------------------------------------------------------------------
(* More of the issuance model, under SpecPure *)

\* C11: for every height h >= 0,
\* blockHeightForSupply(totalSubsidyAtHeight(h)) is a height and is <= h.
C11_RoundTripBelow ==
    (call.fn = "blockHeightForSupplyOfTotal" /\ call.a # Null /\ Val(call.a) >= 0)
        => (call.rb # Null /\ Val(call.rb) <= Val(call.a))

\* a height past the end of the schedule comes back as the last height that
\* issued anything
C11_Witness ==
    /\ call.fn = "blockHeightForSupplyOfTotal"
    /\ call.a # Null
    /\ Val(call.a) > Cardinality(Eras) * ScaledHalvingInterval
    /\ call.ra = Some(ScheduleTotal)
    /\ call.rb = Some(Cardinality(Eras) * ScaledHalvingInterval - 1)

\* ceil(t / A) as the least n with n * A >= t, for t no more than A * L
CeilOfFirstEra(t) ==
    CHOOSE n \in -1..(ScaledHalvingInterval + 1) :
        n * ScaledInitialSubsidy >= t /\ (n - 1) * ScaledInitialSubsidy < t

\* C12: for every threshold t below A * L (the starting per-block amount times
\* the era length), blockHeightForSupply(t) = ceil(t / A) - 1.
C12_FirstEra ==
    (/\ call.fn = "blockHeightForSupply"
     /\ Val(call.a) < ScaledInitialSubsidy * ScaledHalvingInterval)
        => call.ra = Some(CeilOfFirstEra(Val(call.a)) - 1)

\* a threshold inside the first era that is no multiple of A
C12_Witness ==
    /\ call.fn = "blockHeightForSupply"
    /\ Val(call.a) = ScaledInitialSubsidy + 1
    /\ call.ra = Some(1)

\* C13: blockHeightForSupply returns null exactly when the threshold exceeds
\* the total issuance of the schedule, and a height for every threshold that
\* does not exceed it.
C13_NullIffUnreachable ==
    call.fn = "blockHeightForSupply"
        => (call.ra = Null <=> Val(call.a) > ScheduleTotal)

\* one unit more than the schedule ever issues
C13_Witness ==
    /\ call.fn = "blockHeightForSupply"
    /\ Val(call.a) = ScheduleTotal + 1
    /\ call.ra = Null

-----------------------------------------------------------------------------
(* The script's top level.  The page is loaded with the threshold the       *)
(* script was configured with in call.a: the schedule's milestone, or a     *)
(* threshold the schedule never reaches.  Nothing of script.ts:27-391 has   *)
(* run yet: no listener is registered and no request is in flight.          *)

ConfiguredTargets == {ScaledTargetSats, ScheduleTotal + 1}

InitStartup ==
    /\ currentBlock = Null
    /\ avgBlockTimeMs = FracOfInt(FALLBACK_BLOCK_TIME_MS)
    /\ lastBlockTimeMs = Null
    /\ estimatedTargetTimeMs = Null
    /\ estimateMode = "average"
    /\ countdownInterval = Null
    /\ elements = InitialElements
    /\ now = 0
    /\ feedHeight \in 0..MaxFeedHeight
    /\ polls = << >>
    /\ last = NoCycle
    /\ \E targetSats \in ConfiguredTargets :
           call = [NoCall EXCEPT !.fn = "load", !.a = Some(targetSats)]

\* script.ts:20-25 where line 22 does not throw: the script goes on with a
\* null TARGET_BLOCK
RunScriptNoThrow ==
    /\ call.fn = "load"
    /\ call' = [call EXCEPT !.fn = "running",
                            !.ra = blockHeightForSupply(Val(call.a))]
    /\ polls' = <<NewPoll("initial", feedHeight)>>
    /\ UNCHANGED <<currentBlock, avgBlockTimeMs, lastBlockTimeMs,
                   estimatedTargetTimeMs, estimateMode, countdownInterval,
                   elements, now, feedHeight, last>>

\* script.ts:20-25 then 27-391: TARGET_BLOCK is computed; if it is null the
\* throw of line 23 ends the script there, else the state is constructed, the
\* listeners are registered and startCountdown sends the first request
RunScript ==
    /\ call.fn = "load"
    /\ \E target \in {blockHeightForSupply(Val(call.a))} :
           IF target = Null
           THEN /\ call' = [call EXCEPT !.fn = "aborted"]
                /\ UNCHANGED polls
           ELSE /\ call' = [call EXCEPT !.fn = "running", !.ra = target]
                /\ polls' = <<NewPoll("initial", feedHeight)>>
    /\ UNCHANGED <<currentBlock, avgBlockTimeMs, lastBlockTimeMs,
                   estimatedTargetTimeMs, estimateMode, countdownInterval,
                   elements, now, feedHeight, last>>

\* the listeners of script.ts:340 and 382 and the timers of 372 and 375 exist
\* only once the script has run to its end
NextStartup ==
    \/ RunScript
    \/ /\ call.fn = "running"
       /\ \E trigger \in {"interval", "visible"} : \E tip \in 0..MaxFeedHeight :
              polls = << >> /\ StartPoll(trigger, tip, FALSE)
    \/ call.fn = "running" /\ Handlers
    \/ call.fn # "running" /\ ClockAdvance

SpecStartup == InitStartup /\ [][NextStartup]_vars

\* C14: if the threshold is unreachable under the issuance schedule, the
\* script aborts at startup: no poll, no mode toggle and no display refresh is
\* ever executed with an undefined target height.
C14_AbortsOnUnreachable ==
    /\ (call.fn # "load" /\ Val(call.a) > ScheduleTotal)
           => /\ call.fn = "aborted"
              /\ polls = << >>
              /\ last = NoCycle
              /\ estimateMode = "average"
              /\ countdownInterval = Null
              /\ elements = InitialElements
              /\ currentBlock = Null
    /\ call.fn = "running" => call.ra # Null

\* the script has aborted and time has passed with nothing else happening
C14_Witness ==
    /\ call.fn = "aborted"
    /\ Val(call.a) > ScheduleTotal
    /\ now > 0
    /\ polls = << >>
    /\ elements = InitialElements

-----------------------------------------------------------------------------
(* The mode toggle and the estimate state, under Spec *)

\* what the projection must be in the state s of the estimate variables:
\* anchor + max(0, target - current) * (rate of the mode)
ProjectionOf(current, anchor, rate) ==
    FracAdd(<<anchor, 1>>,
            FracMulInt(rate, IF TARGET_BLOCK_HEIGHT - current > 0
                             THEN TARGET_BLOCK_HEIGHT - current ELSE 0))

\* C15: flipping the mode toggle after any successful poll sets
\* estimatedTargetTimeMs to (the existing anchor) + max(0, target - current) *
\* (the rate of the newly selected mode), leaves lastBlockTimeMs, currentBlock
\* and avgBlockTimeMs unchanged, and starts no feed request.
C15_ToggleRecomputes ==
    [][(estimateMode' # estimateMode /\ currentBlock # Null)
           => /\ estimatedTargetTimeMs' =
                     ProjectionOf(Val(currentBlock), Val(lastBlockTimeMs),
                                  IF estimateMode' = "fixed"
                                  THEN <<10 * 60 * 1000, 1>>
                                  ELSE avgBlockTimeMs)
              /\ UNCHANGED <<lastBlockTimeMs, currentBlock, avgBlockTimeMs,
                             polls, feedHeight>>
      ]_vars

\* the toggle was flipped to fixed with blocks left and a stored average that
\* is not the nominal ten minutes: the projection uses ten minutes
C15_Witness ==
    /\ estimateMode = "fixed"
    /\ currentBlock # Null
    /\ Val(currentBlock) < TARGET_BLOCK_HEIGHT
    /\ avgBlockTimeMs # <<10 * 60 * 1000, 1>>
    /\ estimatedTargetTimeMs =
           <<Val(lastBlockTimeMs)
                 + (TARGET_BLOCK_HEIGHT - Val(currentBlock)) * 10 * 60 * 1000, 1>>

EstimateDefined ==
    currentBlock # Null /\ lastBlockTimeMs # Null /\ estimatedTargetTimeMs # Null

\* C16: once any cycle has succeeded, currentBlock, lastBlockTimeMs and
\* estimatedTargetTimeMs are all defined, and they stay defined in every later
\* state, whatever failed cycles, successful cycles, toggles and ticks follow.
C16_EstimateStaysDefined ==
    [][/\ (CycleCompletes /\ last'.op \in {"PrimaryOk", "FallbackOk"})
           => EstimateDefined'
       /\ EstimateDefined => EstimateDefined'
      ]_vars

\* after a cycle that reached the target and a toggle to fixed mode, a cycle
\* failed twice: the three values are still there
C16_Witness ==
    /\ EstimateDefined
    /\ Val(currentBlock) >= TARGET_BLOCK_HEIGHT
    /\ estimateMode = "fixed"
    /\ last.op = "FallbackFail"

-----------------------------------------------------------------------------
(* The rate estimator, under SpecPure *)

\* adjacent samples of the window are exactly 600 seconds apart, newest first
SteppedBy600(blocks) ==
    \A k \in 1..(Len(blocks) - 1) :
        blocks[k].timestamp - blocks[k + 1].timestamp = 600

\* C17: on a most-recent-first window of two samples or more whose timestamps
\* step by exactly 600 seconds, calculateAverageBlockTimeMs yields exactly
\* 600000 ms, whatever the window's length.
C17_SteadyWindow ==
    (/\ call.fn = "calculateAverageBlockTimeMs"
     /\ Len(Val(call.a)) >= 2
     /\ SteppedBy600(Val(call.a)))
        => call.ra = <<600000, 1>>

\* the longest window, stepping by 600 seconds
C17_Witness ==
    /\ call.fn = "calculateAverageBlockTimeMs"
    /\ Len(Val(call.a)) = MaxWindow
    /\ SteppedBy600(Val(call.a))
    /\ call.ra = <<600000, 1>>

-----------------------------------------------------------------------------
(* The rate estimator in the poll cycle, under Spec *)

\* C18: when the sorted batch has fewer than two records or no adjacent pair
\* with a strictly positive timestamp delta, the estimator yields null and the
\* successful primary cycle leaves avgBlockTimeMs as it was; avgBlockTimeMs
\* starts as the nominal 600000 ms and changes only when a primary cycle
\* adopts an average.
C18_NoSampleKeepsRate ==
    /\ avgBlockTimeMs = <<600000, 1>>
    /\ [][/\ (CycleCompletes /\ last'.op = "PrimaryOk" /\ ~last'.hasSample)
              => (last'.averageMs = Null /\ avgBlockTimeMs' = avgBlockTimeMs)
          /\ (avgBlockTimeMs' # avgBlockTimeMs)
              => /\ CycleCompletes
                 /\ last'.op = "PrimaryOk"
                 /\ last'.hasSample
                 /\ avgBlockTimeMs' = last'.averageMs
         ]_vars

\* a primary cycle brought a batch without a sample after an earlier one had
\* stored an average: that average is still the stored rate
C18_Witness ==
    /\ last.op = "PrimaryOk"
    /\ ~last.hasSample
    /\ last.averageMs = Null
    /\ avgBlockTimeMs # <<600000, 1>>

-----------------------------------------------------------------------------
(* The projection at and past the target, and the estimate state as a       *)
(* snapshot, under Spec                                                     *)

\* C19: whenever currentBlock is at or beyond the target, the blocks left are
\* 0 (never negative) and estimatedTargetTimeMs equals lastBlockTimeMs exactly,
\* whatever the stored rate and the mode.
C19_AtTargetProjectionIsAnchor ==
    /\ elements.blocksLeft[2] >= 0
    /\ (currentBlock # Null /\ Val(currentBlock) >= TARGET_BLOCK_HEIGHT)
           => /\ elements.blocksLeft = <<"num", 0>>
              /\ estimatedTargetTimeMs = <<Val(lastBlockTimeMs), 1>>

\* the height is past the target, in fixed mode, with a stored average that is
\* not the nominal rate
C19_Witness ==
    /\ currentBlock # Null
    /\ Val(currentBlock) > TARGET_BLOCK_HEIGHT
    /\ estimateMode = "fixed"
    /\ avgBlockTimeMs # <<600000, 1>>
    /\ elements.blocksLeft = <<"num", 0>>
    /\ estimatedTargetTimeMs = <<Val(lastBlockTimeMs), 1>>

\* C20: every step that changes currentBlock or lastBlockTimeMs also replaces
\* estimatedTargetTimeMs in that same step, so that right after it
\* estimatedTargetTimeMs = anchor + max(0, target - current) * (the rate of the
\* current mode).
C20_SnapshotReplacedTogether ==
    [][(currentBlock' # currentBlock \/ lastBlockTimeMs' # lastBlockTimeMs)
           => /\ EstimateDefined'
              /\ estimatedTargetTimeMs' =
                     ProjectionOf(Val(currentBlock'), Val(lastBlockTimeMs'),
                                  ActiveRate')
      ]_vars

\* a primary response brought a new height short of the target whose tip
\* timestamp is the anchor: the projection is the one of the new height
C20_Witness ==
    /\ last.op = "PrimaryOk"
    /\ last.isNewBlock
    /\ currentBlock = last.height
    /\ Val(currentBlock) > 0
    /\ Val(currentBlock) < TARGET_BLOCK_HEIGHT
    /\ lastBlockTimeMs = last.blockTimeMs
    /\ avgBlockTimeMs # <<600000, 1>>
    /\ estimatedTargetTimeMs =
           ProjectionOf(Val(currentBlock), Val(lastBlockTimeMs), ActiveRate)

-----------------------------------------------------------------------------
(* The primary path of fetchBlockData as a function of the estimate state   *)
(* and the response's payload, called on estimate states the page reaches   *)
(* with one fallback response at time 0 and the mode toggle.                *)

\* script.ts:28-33
InitialEstimate ==
    [currentBlock |-> Null,
     avgBlockTimeMs |-> FracOfInt(FALLBACK_BLOCK_TIME_MS),
     lastBlockTimeMs |-> Null,
     estimatedTargetTimeMs |-> Null,
     estimateMode |-> "average"]

\* the estimate states before the response: the initial one, the ones after a
\* fallback response at time 0, and each of these after a flip to fixed mode
PriorStates ==
    LET polled == {InitialEstimate}
                      \cup {FallbackUpdate(InitialEstimate, h, 0) :
                                h \in 0..MaxFeedHeight}
    IN  polled \cup {ToggleUpdate(s, FALSE) : s \in polled}

\* records as the feed's contract has them, and a record that breaks it with a
\* negative height
ValidRecords == [height : 0..MaxFeedHeight, timestamp : 0..MaxTimestamp]
InvalidRecords == {[height |-> -1, timestamp |-> 0]}

\* what response.json() may give at script.ts:142: something that is no array,
\* or an array of 0..MaxBatch records in any order
Payloads ==
    {[isArray |-> FALSE, items |-> << >>]}
        \cup {[isArray |-> TRUE, items |-> b] :
                 b \in UNION {SeqsOf(ValidRecords \cup InvalidRecords, n) :
                                 n \in 0..MaxBatch}}

\* script.ts:142-167: the payload is rejected at line 143 and the catch block
\* goes to the fallback request, or the estimate state is updated from it
PrimaryResponse(s, payload) ==
    IF ~payload.isArray \/ Len(payload.items) = 0
    THEN [failed |-> TRUE, state |-> s]
    ELSE [failed |-> FALSE, state |-> PrimaryUpdate(s, payload.items)]

CallPrimaryResponse(s, payload) ==
    /\ call = NoCall
    /\ call' = [NoCall EXCEPT !.fn = "fetchBlockData",
                              !.a = Some(payload),
                              !.b = Some(s),
                              !.ra = Some(PrimaryResponse(s, payload))]
    /\ MachineIdle

NextBatch ==
    \/ /\ call = NoCall
       /\ \E s \in PriorStates : \E payload \in Payloads :
              CallPrimaryResponse(s, payload)
    \/ Return

SpecBatch == InitPure /\ [][NextBatch]_vars

\* C21: after every successful primary response, whatever the order of its
\* records, currentBlock is the greatest height of the batch and
\* lastBlockTimeMs is the timestamp, in ms, of a record with that height.
C21_TipOfBatch ==
    (call.fn = "fetchBlockData" /\ ~Val(call.ra).failed)
        => LET items == Val(call.a).items
               after == Val(call.ra).state
           IN  /\ after.currentBlock # Null
               /\ \A k \in 1..Len(items) :
                      items[k].height <= Val(after.currentBlock)
               /\ \E k \in 1..Len(items) :
                      /\ items[k].height = Val(after.currentBlock)
                      /\ after.lastBlockTimeMs = Some(items[k].timestamp * 1000)

\* the tip came last in the response, with a timestamp of its own, and the
\* page already stood at that height with another anchor
C21_Witness ==
    /\ call.fn = "fetchBlockData"
    /\ ~Val(call.ra).failed
    /\ Len(Val(call.a).items) = 2
    /\ Val(call.a).items[1].height < Val(call.a).items[2].height
    /\ Val(call.a).items[1].timestamp # Val(call.a).items[2].timestamp
    /\ Val(call.b).currentBlock = Some(Val(call.a).items[2].height)
    /\ Val(call.b).lastBlockTimeMs # Val(call.ra).state.lastBlockTimeMs
    /\ Val(call.ra).state.lastBlockTimeMs
           = Some(Val(call.a).items[2].timestamp * 1000)

\* a record is what the feed's contract says: a non-negative integer height and
\* an integer timestamp
WellFormedRecord(r) == r.height \in Nat /\ r.timestamp \in Int

\* a non-empty collection of well-formed records
WellFormedPayload(payload) ==
    /\ payload.isArray
    /\ Len(payload.items) > 0
    /\ \A k \in 1..Len(payload.items) : WellFormedRecord(payload.items[k])

\* C23: a primary response that is not a non-empty collection of records each
\* with a non-negative integer height and an integer timestamp (an empty list,
\* no list, or a list with an invalid record) is treated as a failure of the
\* primary request: the estimate state is left as it was and the fallback
\* request is made.
C23_MalformedIsFailure ==
    (call.fn = "fetchBlockData" /\ ~WellFormedPayload(Val(call.a)))
        => /\ Val(call.ra).failed
           /\ Val(call.ra).state = Val(call.b)

\* the responses of the batch, in all the orders of its records
PermutationsOf(items) ==
    {[k \in 1..Len(items) |-> items[f[k]]] : f \in Permutations(1..Len(items))}

DistinctHeights(items) ==
    \A j, k \in 1..Len(items) : j # k => items[j].height # items[k].height

\* C26: the state a successful primary response produces does not depend on
\* the order of its records: for a batch with pairwise distinct heights, every
\* permutation of it applied to the same prior state gives the same
\* currentBlock, avgBlockTimeMs, lastBlockTimeMs and estimatedTargetTimeMs.
C26_OrderIndependent ==
    (/\ call.fn = "fetchBlockData"
     /\ ~Val(call.ra).failed
     /\ DistinctHeights(Val(call.a).items))
        => \A items \in PermutationsOf(Val(call.a).items) :
               PrimaryResponse(Val(call.b), [isArray |-> TRUE, items |-> items])
                   = Val(call.ra)

\* two records arrived oldest first, a block apart in time, and gave the
\* state the newest-first order gives: the tip's height and an average
C26_Witness ==
    /\ call.fn = "fetchBlockData"
    /\ Len(Val(call.a).items) = 2
    /\ Val(call.a).items[1].height < Val(call.a).items[2].height
    /\ Val(call.a).items[1].timestamp < Val(call.a).items[2].timestamp
    /\ Val(call.ra).state.currentBlock = Some(Val(call.a).items[2].height)
    /\ Val(call.ra).state.avgBlockTimeMs # Val(call.b).avgBlockTimeMs
    /\ Val(call.ra) =
           PrimaryResponse(Val(call.b),
                           [isArray |-> TRUE,
                            items |-> <<Val(call.a).items[2],
                                        Val(call.a).items[1]>>])

-----------------------------------------------------------------------------
(* The estimator's samples and the remaining quantities, under SpecPure *)

\* the adjacent pairs of the window with a strictly positive delta
PositivePairs(blocks) ==
    {k \in 1..(Len(blocks) - 1) :
        blocks[k].timestamp - blocks[k + 1].timestamp > 0}

\* the sum of the deltas of the pairs k..
RECURSIVE PositiveDeltaSumFrom(_, _)
PositiveDeltaSumFrom(blocks, k) ==
    IF k >= Len(blocks) THEN 0
    ELSE (IF k \in PositivePairs(blocks)
          THEN blocks[k].timestamp - blocks[k + 1].timestamp ELSE 0)
             + PositiveDeltaSumFrom(blocks, k + 1)

\* C22: for every window of two samples or more, calculateAverageBlockTimeMs
\* skips each adjacent pair whose delta is zero or negative and never fails
\* because of them: when some delta is strictly positive the result r
\* satisfies r * count(positive deltas) = 1000 * sum(positive deltas), and
\* when none is the result is null.
C22_OnlyPositiveDeltas ==
    (call.fn = "calculateAverageBlockTimeMs" /\ Len(Val(call.a)) >= 2)
        => LET blocks == Val(call.a)
               count == Cardinality(PositivePairs(blocks))
           IN  IF count = 0 THEN call.ra = Null
               ELSE /\ call.ra # Null
                    /\ call.ra[1] * count
                           = 1000 * PositiveDeltaSumFrom(blocks, 1) * call.ra[2]

\* a window with a positive, a zero and a negative delta
C22_Witness ==
    /\ call.fn = "calculateAverageBlockTimeMs"
    /\ Len(Val(call.a)) = 4
    /\ Val(call.a)[1].timestamp > Val(call.a)[2].timestamp
    /\ Val(call.a)[2].timestamp = Val(call.a)[3].timestamp
    /\ Val(call.a)[3].timestamp < Val(call.a)[4].timestamp
    /\ call.ra = <<(Val(call.a)[1].timestamp - Val(call.a)[2].timestamp) * 1000, 1>>

\* C25: the two remaining quantities shown agree on when the milestone is
\* reached: for every height h >= 0, the blocks left max(0, target - h) are 0
\* if and only if the issuance left max(0, TARGET_SATS - totalSubsidyAtHeight(h))
\* is 0.
C25_RemainingAgree ==
    (call.fn = "calculateRemaining" /\ call.a # Null /\ Val(call.a) >= 0)
        => /\ call.ra # Null
           /\ Val(call.ra).blocksLeft >= 0
           /\ Val(call.ra).btcLeftSats >= 0
           /\ Val(call.ra).blocksLeft = 0 <=> Val(call.ra).btcLeftSats = 0

\* one block short of the target something is left of both; at the target
\* nothing is
C25_Witness ==
    /\ call.fn = "calculateRemaining"
    /\ call.a = Some(TARGET_BLOCK_HEIGHT - 1)
    /\ Val(call.ra).blocksLeft = 1
    /\ Val(call.ra).btcLeftSats > 0
    /\ calculateRemaining([EstimateState EXCEPT !.currentBlock = TARGET_BLOCK])
           = <<[blocksLeft |-> 0,
                totalMinedSats |-> totalSubsidyAtHeight(TARGET_BLOCK),
                btcLeftSats |-> 0]>>

-----------------------------------------------------------------------------
(* The fixed mode, under Spec *)

\* C24: in fixed mode, in every reachable state that has a projection, the
\* projection is anchor + max(0, target - current) * 600000 ms, whatever the
\* stored average is: the primary polls keep updating avgBlockTimeMs but the
\* projection does not read it.
C24_FixedIgnoresAverage ==
    (estimateMode = "fixed" /\ estimatedTargetTimeMs # Null)
        => /\ currentBlock # Null
           /\ lastBlockTimeMs # Null
           /\ estimatedTargetTimeMs
                  = FracOfInt(Val(lastBlockTimeMs)
                        + Max(0, TARGET_BLOCK_HEIGHT - Val(currentBlock)) * 600000)

\* a primary poll in fixed mode has just stored an average other than 600000
\* and the target is still ahead
C24_Witness ==
    /\ estimateMode = "fixed"
    /\ last # NoCycle
    /\ last.op = "PrimaryOk"
    /\ last.averageMs # Null
    /\ last.averageMs = avgBlockTimeMs
    /\ avgBlockTimeMs # FracOfInt(600000)
    /\ currentBlock # Null
    /\ Val(currentBlock) < TARGET_BLOCK_HEIGHT
    /\ estimatedTargetTimeMs
           = FracOfInt(Val(lastBlockTimeMs)
                 + (TARGET_BLOCK_HEIGHT - Val(currentBlock)) * 600000)

====
